---- MODULE Spec2Model ----
(***************************************************************************)
(* Order submission pipeline of cvl-designs: request throttle, input       *)
(* validation, price verification, order-number allocation on the          *)
(* OrderSequence sheet, and order fulfillment (order sheet, invoice PDF,   *)
(* customer and admin e-mail, tech-support escalation).                    *)
(*                                                                         *)
(* Money is counted in cents, time in milliseconds.  Every awaited call of *)
(* the TypeScript source is one step of a request; the synchronous code    *)
(* between two awaits runs to completion and is part of the step.          *)
(***************************************************************************)
EXTENDS Integers, Sequences, FiniteSets, TLC

(***************************************************************************)
(* Program constants                                                       *)
(***************************************************************************)
maxRequests == 3
windowMs == 60000
CLEANUP_INTERVAL == 300000
SequenceModulus == 1000000
PadWidth == 6
HeaderRows == 1
Epsilon == 1
MaxItems == 50
MaxQuantity == 100
MaxOptions == 10
MaxOptionNumber == 99
MaxOptionPrice == 1000
MaxSizeUpcharge == 100
MaxItemPrice == 10000
MaxTotalPrice == 50000
MaxTotalAmount == 100000

(***************************************************************************)
(* Bounds of the model                                                     *)
(***************************************************************************)
MaxTime == 360001
MaxFineTicks == 2
MaxCalls == 6
MaxClock == 2
PriorRows == 8

Procs == {"r1", "r2"}

Keys == {"ip1", "ip2"}

VARIABLES
    now,              \* Date.now()
    rateLimitStore,   \* rateLimit.ts: the Map from client key to its entry
    lastCleanup,      \* rateLimit.ts: time of the last sweep
    rlWindow,         \* history: per key, the allowed flags of the calls of the current window
    lastCall,         \* history: the last checkRateLimit call, its entry before, its result
    neverSwept,       \* history: the store the same calls leave when no sweep ever runs
    calls,            \* history: number of checkRateLimit calls made
    catalog,          \* the products sheet: products, design options, customization options
    pvItems,          \* verifyPrices: the items argument
    pvResult,         \* verifyPrices: the returned {valid, discrepancies}
    env,              \* orderNumber.ts getEnvironment(): the deployment of each caller
    seqSheet,         \* the OrderSequence sheet of the config spreadsheet
    pc,               \* the await each request or caller is at
    loc,              \* the local variables of each request or caller
    req,              \* the request of each handler run: client key and body
    resp,             \* the response returned for each request
    orderSheet,       \* the orders spreadsheet
    audit,            \* per request, the logOrderError records written
    mail,             \* per request, the e-mails handed to sendEmail that were sent
    configSheet       \* the config spreadsheet: whether it names an admin and a tech address

rateVars == <<rateLimitStore, lastCleanup, rlWindow, lastCall, neverSwept, calls>>
priceVars == <<catalog, pvItems, pvResult>>
allocVars == <<env, seqSheet>>
procVars == <<pc, loc>>
orderVars == <<req, resp, orderSheet, audit, mail, configSheet>>
vars == <<now, rateLimitStore, lastCleanup, rlWindow, lastCall, neverSwept, calls,
          catalog, pvItems, pvResult, env, seqSheet, pc, loc,
          req, resp, orderSheet, audit, mail, configSheet>>

Abs(x) == IF x < 0 THEN -x ELSE x

(***************************************************************************)
(* Request throttle (src/lib/rateLimit.ts)                                 *)
(***************************************************************************)
NoEntry == [present |-> FALSE, count |-> 0, firstRequestTime |-> 0]

\* The window test of checkRateLimit.
WindowExpired(t, entry, window) == t - entry.firstRequestTime > window

\* An expiry test of the sweep that already removes an entry at the end of its window.
EntryExpiredEarly(t, entry, window) == t - entry.firstRequestTime >= window

\* The expiry test of the sweep.
EntryExpired(t, entry, window) == t - entry.firstRequestTime > window

\* cleanupExpiredEntries(windowMs): at most one sweep per CLEANUP_INTERVAL.
cleanupExpiredEntries(store, lc, t, window) ==
    IF t - lc < CLEANUP_INTERVAL
    THEN [store |-> store, lastCleanup |-> lc]
    ELSE [store |-> [k \in DOMAIN store |->
                        IF store[k].present /\ EntryExpired(t, store[k], window)
                        THEN NoEntry ELSE store[k]],
          lastCleanup |-> t]

\* A limit test that denies the request that reaches the limit.
OverLimitOffByOne(count, limit) == count >= limit

\* The limit test applied to the incremented counter.
OverLimit(count, limit) == count > limit

\* A throttle whose denied calls restart the window of the key.
checkRateLimitRestartingOnDeny(store, lc, identifier, t, limit, window) ==
    LET swept == cleanupExpiredEntries(store, lc, t, window)
        entry == swept.store[identifier]
    IN  IF ~entry.present \/ t - entry.firstRequestTime > window
        THEN [store |-> [swept.store EXCEPT ![identifier] =
                            [present |-> TRUE, count |-> 1, firstRequestTime |-> t]],
              lastCleanup |-> swept.lastCleanup,
              result |-> [allowed |-> TRUE, remaining |-> limit - 1,
                          resetIn |-> window, current |-> 1]]
        ELSE LET count == entry.count + 1
                 resetIn == window - (t - entry.firstRequestTime)
             IN  IF count > limit
                 THEN [store |-> [swept.store EXCEPT ![identifier].count = count,
                                                     ![identifier].firstRequestTime = t],
                       lastCleanup |-> swept.lastCleanup,
                       result |-> [allowed |-> FALSE, remaining |-> 0,
                                   resetIn |-> resetIn, current |-> count]]
                 ELSE [store |-> [swept.store EXCEPT ![identifier].count = count],
                       lastCleanup |-> swept.lastCleanup,
                       result |-> [allowed |-> TRUE, remaining |-> limit - count,
                                   resetIn |-> resetIn, current |-> count]]

\* checkRateLimit(identifier, config): the store and sweep time after the call, and the result.
checkRateLimit(store, lc, identifier, t, limit, window) ==
    LET swept == cleanupExpiredEntries(store, lc, t, window)
        entry == swept.store[identifier]
    IN  IF ~entry.present \/ WindowExpired(t, entry, window)
        THEN [store |-> [swept.store EXCEPT ![identifier] =
                            [present |-> TRUE, count |-> 1, firstRequestTime |-> t]],
              lastCleanup |-> swept.lastCleanup,
              result |-> [allowed |-> TRUE, remaining |-> limit - 1,
                          resetIn |-> window, current |-> 1]]
        ELSE LET count == entry.count + 1
                 resetIn == window - (t - entry.firstRequestTime)
                 stored == [swept.store EXCEPT ![identifier].count = count]
             IN  IF OverLimit(count, limit)
                 THEN [store |-> stored, lastCleanup |-> swept.lastCleanup,
                       result |-> [allowed |-> FALSE, remaining |-> 0,
                                   resetIn |-> resetIn, current |-> count]]
                 ELSE [store |-> stored, lastCleanup |-> swept.lastCleanup,
                       result |-> [allowed |-> TRUE, remaining |-> limit - count,
                                   resetIn |-> resetIn, current |-> count]]

NoResult == [allowed |-> FALSE, remaining |-> 0, resetIn |-> 0, current |-> 0]
NoCall ==
    [made |-> FALSE, key |-> "ip1", t |-> 0, before |-> NoEntry, result |-> NoResult,
     reference |-> NoResult]


(***************************************************************************)
(* Price verifier (verifyPrices, src/lib/errorLogger.ts)                   *)
(***************************************************************************)
\* Array.prototype.find: the first of the indices whose element passes the
\* test, 0 when none does.
FindIndex(passing) ==
    IF passing = {} THEN 0 ELSE CHOOSE i \in passing : \A j \in passing : i <= j

\* A price comparison that only notices a submitted price above the expected one.
PriceMismatchOneSided(submitted, expected) == submitted - expected > Epsilon

\* Math.abs(submitted - expected) > 0.01
PriceMismatch(submitted, expected) == Abs(submitted - expected) > Epsilon

\* sizeInfo?.upcharge || 0, with sizeInfo = product.availableSizes?.find(s => s.size === item.size)
ExpectedSizeUpcharge(product, size) ==
    LET i == IF product.hasSizes
             THEN FindIndex({n \in 1..Len(product.availableSizes) :
                                product.availableSizes[n].size = size})
             ELSE 0
    IN  IF i = 0 THEN 0 ELSE product.availableSizes[i].upcharge

\* The catalog price of an option number, found = FALSE when the catalog has no such number.
OptionLookup(options, number) ==
    LET i == FindIndex({n \in 1..Len(options) : options[n].number = number})
    IN  IF i = 0 THEN [found |-> FALSE, price |-> 0]
        ELSE [found |-> TRUE, price |-> options[i].price]

\* expectedDesignTotal / expectedCustomTotal: the catalog prices of the submitted options found.
RECURSIVE ExpectedOptionsTotal(_, _)
ExpectedOptionsTotal(submitted, options) ==
    IF submitted = <<>> THEN 0
    ELSE OptionLookup(options, Head(submitted).optionNumber).price
         + ExpectedOptionsTotal(Tail(submitted), options)

\* The discrepancies of the submitted options: a found option whose price differs.
OptionDiscrepancies(submitted, options, kind) ==
    LET bad == SelectSeq(submitted, LAMBDA o :
                   /\ OptionLookup(options, o.optionNumber).found
                   /\ PriceMismatch(o.price, OptionLookup(options, o.optionNumber).price))
    IN  [i \in 1..Len(bad) |->
            [kind |-> kind, ref |-> "", option |-> bad[i].optionNumber]]

Discrepancy(kind, ref) == [kind |-> kind, ref |-> ref, option |-> 0]

\* A verifier that passes over an item whose product the catalog does not have.
ProductNotFoundSkipped(item) == <<>>

\* if (!product) { discrepancies.push(`Product not found: ...`); continue }
ProductNotFound(item) == <<Discrepancy("Product not found", item.productId)>>

\* The body of the loop of verifyPrices for one item.
ItemDiscrepancies(item, products, designOptions, customizationOptions) ==
    LET pi == FindIndex({n \in 1..Len(products) : products[n].id = item.productId})
    IN  IF pi = 0
        THEN ProductNotFound(item)
        ELSE LET product == products[pi]
                 expectedSizeUpcharge == ExpectedSizeUpcharge(product, item.size)
                 expectedItemPrice == product.price + expectedSizeUpcharge
                 expectedDesignTotal ==
                     ExpectedOptionsTotal(item.designOptions, designOptions)
                 expectedCustomTotal ==
                     ExpectedOptionsTotal(item.customizationOptions, customizationOptions)
                 expectedTotal ==
                     expectedItemPrice + expectedDesignTotal + expectedCustomTotal
             IN  (IF PriceMismatch(item.sizeUpcharge, expectedSizeUpcharge)
                  THEN <<Discrepancy("Size upcharge mismatch", product.name)>>
                  ELSE <<>>)
                 \o (IF PriceMismatch(item.itemPrice, expectedItemPrice)
                     THEN <<Discrepancy("Item price mismatch", product.name)>>
                     ELSE <<>>)
                 \o OptionDiscrepancies(item.designOptions, designOptions,
                                        "Design option price mismatch")
                 \o OptionDiscrepancies(item.customizationOptions, customizationOptions,
                                        "Customization option price mismatch")
                 \o (IF PriceMismatch(item.totalPrice, expectedTotal)
                     THEN <<Discrepancy("Item total mismatch", product.name)>>
                     ELSE <<>>)

\* A loop that stops after the first item.
FirstItemDiscrepancies(items, products, designOptions, customizationOptions) ==
    IF items = <<>> THEN <<>>
    ELSE ItemDiscrepancies(Head(items), products, designOptions, customizationOptions)

\* The loop of verifyPrices over the items.
RECURSIVE AllDiscrepancies(_, _, _, _)
AllDiscrepancies(items, products, designOptions, customizationOptions) ==
    IF items = <<>> THEN <<>>
    ELSE ItemDiscrepancies(Head(items), products, designOptions, customizationOptions)
         \o AllDiscrepancies(Tail(items), products, designOptions, customizationOptions)

\* verifyPrices(items, products, designOptions, customizationOptions)
verifyPrices(items, products, designOptions, customizationOptions) ==
    LET discrepancies ==
            AllDiscrepancies(items, products, designOptions, customizationOptions)
    IN  [done |-> TRUE, valid |-> Len(discrepancies) = 0, discrepancies |-> discrepancies]

NoVerification == [done |-> FALSE, valid |-> FALSE, discrepancies |-> <<>>]

(***************************************************************************)
(* Order numbers (src/lib/orderNumber.ts)                                  *)
(***************************************************************************)
\* Number.prototype.toString(): the decimal digits of n.
RECURSIVE Digits(_)
Digits(n) == IF n < 10 THEN <<n>> ELSE Append(Digits(n \div 10), n % 10)

\* parseInt(digits, 10)
RECURSIVE ParseInt(_)
ParseInt(ds) ==
    IF ds = <<>> THEN 0
    ELSE ParseInt(SubSeq(ds, 1, Len(ds) - 1)) * 10 + ds[Len(ds)]

\* padStart(6, '0')
PadStart(ds, width) ==
    IF Len(ds) >= width THEN ds ELSE [i \in 1..(width - Len(ds)) |-> 0] \o ds

\* The updatedRange of an append answer, "OrderSequence!A<row>:C<row>".
UpdatedRange(row) ==
    [sheet |-> "OrderSequence", startColumn |-> "A", startRow |-> Digits(row),
     endColumn |-> "C", endRow |-> Digits(row)]

\* A match that captures only the first digit of the row.
RowMatchFirstDigit(updatedRange) == <<updatedRange.startRow[1]>>

\* updatedRange.match(/!A(\d+):/)[1]
RowMatch(updatedRange) == updatedRange.startRow

\* nextSequence = rowNumber - 1 (one header row)
SequenceOfRow(rowNumber) == rowNumber - HeaderRows

\* Date.now() % 1000000
TimestampSequence(t) == t % SequenceModulus

\* The row the sheet assigns to an append to A2:C2: the first row after the last one in use.
AssignedRow(sheet) == HeaderRows + sheet.prior + Len(sheet.rows) + 1

\* The sheet with one more row [timestamp, environment, 'PENDING'] appended by caller p.
WithRow(sheet, p, t, e) ==
    [sheet EXCEPT !.rows = Append(@, [by |-> p, timestamp |-> t, environment |-> e,
                                      pending |-> TRUE, sequence |-> 0])]

\* The sheet after values.update of C<rowNumber> with the sequence.
WithSequence(sheet, rowNumber, sequence) ==
    LET i == rowNumber - HeaderRows - sheet.prior
    IN  IF i \in 1..Len(sheet.rows)
        THEN [sheet EXCEPT !.rows[i].pending = FALSE, !.rows[i].sequence = sequence]
        ELSE sheet

\* `CVL-${env}-${storeUpper}-${dateStr}-${sequenceStr}`
OrderNumber(e, store, date, sequence) ==
    [prefix |-> "CVL", env |-> e, store |-> store, date |-> date,
     sequence |-> PadStart(Digits(sequence), PadWidth)]

\* getShortOrderNumber: the last '-' separated part.
getShortOrderNumber(fullOrderNumber) == fullOrderNumber.sequence

NoOrderNumber == [prefix |-> "", env |-> "", store |-> "", date |-> 0, sequence |-> <<>>]

NoLocals ==
    [rowNumber |-> 0, sequence |-> 0, source |-> "none", failedAt |-> "none",
     recorded |-> FALSE, date |-> 0, headerAnswer |-> "none",
     rateLimitResult |-> NoResult, items |-> <<>>, serverCalculatedTotal |-> 0,
     orderNumber |-> NoOrderNumber, config |-> [admin |-> FALSE, tech |-> FALSE],
     fetched |-> <<FALSE, FALSE, FALSE>>,
     pdfBuffer |-> FALSE, steps |-> <<>>, techSupport |-> "none"]


(***************************************************************************)
(* Input validation (validateOrderSubmission, src/lib/errorLogger.ts)      *)
(***************************************************************************)
Cents(amount) == amount * 100

OptionErrors(options, path) ==
    (IF Len(options) > MaxOptions THEN <<path>> ELSE <<>>)
    \o (IF \E i \in 1..Len(options) :
              \/ options[i].optionNumber < 1
              \/ options[i].optionNumber > MaxOptionNumber
              \/ options[i].price < 0
              \/ options[i].price > Cents(MaxOptionPrice)
        THEN <<path>> ELSE <<>>)

\* orderItemSchema: the issues of one item.
ItemErrors(item) ==
    (IF item.sizeUpcharge < 0 \/ item.sizeUpcharge > Cents(MaxSizeUpcharge)
     THEN <<"sizeUpcharge">> ELSE <<>>)
    \o (IF item.itemPrice < 0 \/ item.itemPrice > Cents(MaxItemPrice)
        THEN <<"itemPrice">> ELSE <<>>)
    \o (IF item.quantity < 1 \/ item.quantity > MaxQuantity
        THEN <<"quantity">> ELSE <<>>)
    \o OptionErrors(item.designOptions, "designOptions")
    \o OptionErrors(item.customizationOptions, "customizationOptions")
    \o (IF item.totalPrice < 0 \/ item.totalPrice > Cents(MaxTotalPrice)
        THEN <<"totalPrice">> ELSE <<>>)

RECURSIVE ItemsErrors(_)
ItemsErrors(items) ==
    IF items = <<>> THEN <<>> ELSE ItemErrors(Head(items)) \o ItemsErrors(Tail(items))

\* validateOrderSubmission(data): every issue of the schema is reported.
validateOrderSubmission(body) ==
    LET errors ==
            (IF ~body.contactInfo THEN <<"contactInfo">> ELSE <<>>)
            \o (IF Len(body.items) < 1 \/ Len(body.items) > MaxItems
                THEN <<"items">> ELSE <<>>)
            \o ItemsErrors(body.items)
            \o (IF body.totalAmount < 0 \/ body.totalAmount > Cents(MaxTotalAmount)
                THEN <<"totalAmount">> ELSE <<>>)
    IN  [success |-> errors = <<>>, errors |-> errors]

(***************************************************************************)
(* The submission route (src/app/api/orders/submit/route.ts)               *)
(***************************************************************************)
\* A division that rounds down.
FloorDiv(a, b) == a \div b

\* Math.ceil(a / b)
CeilDiv(a, b) == (a + b - 1) \div b

\* getRateLimitHeaders(result, config)
getRateLimitHeaders(result, limit) ==
    [present |-> TRUE, limit |-> limit, remaining |-> result.remaining,
     reset |-> CeilDiv(result.resetIn, 1000)]

NoHeaders == [present |-> FALSE, limit |-> 0, remaining |-> 0, reset |-> 0]

EmptyConfig == [admin |-> FALSE, tech |-> FALSE]

NoRequest ==
    [key |-> "ip1",
     body |-> [json |-> FALSE, contactInfo |-> FALSE, items |-> <<>>, totalAmount |-> 0]]

NoResponse ==
    [status |-> 0, success |-> FALSE, orderNumber |-> <<>>, error |-> "",
     details |-> <<>>, retryAfter |-> 0, retryAfterHeader |-> 0, headers |-> NoHeaders]

Response(status, error, headers) ==
    [NoResponse EXCEPT !.status = status, !.error = error, !.headers = headers]

\* A rejection that tells the client what the verifier found.
PriceRejectionEchoing(priceVerification, headers) ==
    [Response(400, "Price verification failed", headers)
     EXCEPT !.details = priceVerification.discrepancies]

\* The response to a submission that failed price verification.
PriceRejection(priceVerification, headers) ==
    Response(400, "Price verification failed", headers)

\* fetchProducts: the products of the sheet with the labels of their sizes.
fetchProducts(sheet) ==
    [i \in 1..Len(sheet.products) |->
        [id |-> sheet.products[i].id, name |-> sheet.products[i].name,
         price |-> sheet.products[i].price,
         availableSizes |-> [n \in 1..Len(sheet.products[i].availableSizes) |->
                                sheet.products[i].availableSizes[n].size]]]

\* products.map(p => ({ id: p.id, price: p.price, name: p.name }))
VerifierProducts(products) ==
    [i \in 1..Len(products) |->
        [id |-> products[i].id, name |-> products[i].name, price |-> products[i].price,
         hasSizes |-> FALSE, availableSizes |-> <<>>]]

\* serverCalculatedTotal: the reduce over the validated items.
RECURSIVE ServerCalculatedTotal(_, _, _, _)
ServerCalculatedTotal(items, products, designOptions, customizationOptions) ==
    IF items = <<>> THEN 0
    ELSE LET item == Head(items)
             pi == FindIndex({n \in 1..Len(products) : products[n].id = item.productId})
             designTotal == ExpectedOptionsTotal(item.designOptions, designOptions)
             customTotal ==
                 ExpectedOptionsTotal(item.customizationOptions, customizationOptions)
             itemTotal ==
                 IF pi = 0 THEN 0
                 ELSE (products[pi].price + designTotal + customTotal) * item.quantity
         IN  itemTotal + ServerCalculatedTotal(Tail(items), products, designOptions,
                                               customizationOptions)

\* A total taken from the submission.
OrderTotalFromClient(validatedData, products, designOptions, customizationOptions) ==
    validatedData.totalAmount

\* order.totalAmount: the server-calculated total of the validated submission.
OrderTotal(validatedData, products, designOptions, customizationOptions) ==
    ServerCalculatedTotal(validatedData.items, products, designOptions,
                          customizationOptions)

\* date.toISOString().slice(0, 10): the day of a time.
DateOf(t) == t \div 86400000

\* A row of the Orders sheet: the columns of the order and those of one item.
OrderRow(item, quantity, orderNumber, totalAmount, p) ==
    [by |-> p, orderNumber |-> orderNumber, environment |-> orderNumber.env,
     store |-> orderNumber.store, quantity |-> quantity,
     itemPrice |-> item.itemPrice, itemTotal |-> item.totalPrice,
     orderTotal |-> totalAmount, invoiceFilename |-> "Pending..."]

\* Rows that carry one row per item, holding the quantity of the item.
RECURSIVE OrderRowsPerItem(_, _, _, _)
OrderRowsPerItem(items, orderNumber, totalAmount, p) ==
    IF items = <<>> THEN <<>>
    ELSE <<OrderRow(Head(items), Head(items).quantity, orderNumber, totalAmount, p)>>
         \o OrderRowsPerItem(Tail(items), orderNumber, totalAmount, p)

\* The rows submitOrder appends: one row per unit of quantity of each item.
RECURSIVE OrderRows(_, _, _, _)
OrderRows(items, orderNumber, totalAmount, p) ==
    IF items = <<>> THEN <<>>
    ELSE [q \in 1..Head(items).quantity |->
             OrderRow(Head(items), 1, orderNumber, totalAmount, p)]
         \o OrderRows(Tail(items), orderNumber, totalAmount, p)

(***************************************************************************)
(* Inputs of the price verifier                                            *)
(***************************************************************************)
SizeTable == <<[size |-> "M", upcharge |-> 0], [size |-> "2XL", upcharge |-> 200]>>
Tee == [id |-> "tee", name |-> "Tee", price |-> 1500,
        hasSizes |-> TRUE, availableSizes |-> SizeTable]
Cap == [id |-> "cap", name |-> "Cap", price |-> 1000,
        hasSizes |-> FALSE, availableSizes |-> <<>>]
DesignCatalog == <<[number |-> 1, price |-> 500]>>
CustomCatalog == <<[number |-> 1, price |-> 300]>>
EmptyCatalog == [products |-> <<>>, designOptions |-> <<>>, customizationOptions |-> <<>>]
Catalogs ==
    { [products |-> ps, designOptions |-> DesignCatalog,
       customizationOptions |-> CustomCatalog] : ps \in {<<Tee>>, <<Cap, Tee>>} }
    \cup {EmptyCatalog}

Option(n, p) == [optionNumber |-> n, price |-> p]
DesignChoices == {<<>>, <<Option(1, 500)>>, <<Option(1, 502)>>, <<Option(9, 500)>>}
CustomChoices == {<<>>, <<Option(1, 300)>>}

RECURSIVE SumPrices(_)
SumPrices(options) ==
    IF options = <<>> THEN 0 ELSE Head(options).price + SumPrices(Tail(options))

\* The items a client can submit: any product id, size, upcharge and prices of the grid.
SubmittedItems ==
    UNION { { [productId |-> pid, size |-> sz, sizeUpcharge |-> up, itemPrice |-> ip,
               quantity |-> 1, designOptions |-> ds, customizationOptions |-> cs,
               totalPrice |-> base + delta]
              : base \in {ip, ip + SumPrices(ds) + SumPrices(cs)}, delta \in {-2, 0, 1} }
            : pid \in {"tee", "cap", "ghost"}, sz \in {"M", "2XL"}, up \in {0, 200},
              ip \in {1000, 1500, 1501, 1502, 1700},
              ds \in DesignChoices, cs \in CustomChoices }

GoodTee == [productId |-> "tee", size |-> "M", sizeUpcharge |-> 0, itemPrice |-> 1500,
            quantity |-> 1, designOptions |-> <<>>, customizationOptions |-> <<>>,
            totalPrice |-> 1500]
CheapTee == [GoodTee EXCEPT !.itemPrice = 1000, !.totalPrice = 1000]

(***************************************************************************)
(* Initial values of the parts a specification leaves alone                *)
(***************************************************************************)
NoSheet == [exists |-> FALSE, header |-> FALSE, prior |-> 0, rows |-> <<>>]

RateQuiet ==
    /\ rateLimitStore = [k \in Keys |-> NoEntry]
    /\ lastCleanup = now
    /\ rlWindow = [k \in Keys |-> <<>>]
    /\ lastCall = NoCall
    /\ neverSwept = rateLimitStore
    /\ calls = 0

PriceQuiet ==
    /\ pvItems = <<>>
    /\ pvResult = NoVerification

AllocQuiet ==
    /\ env = [p \in Procs |-> "LOCAL"]
    /\ seqSheet = NoSheet

ProcQuiet ==
    /\ pc = [p \in Procs |-> "off"]
    /\ loc = [p \in Procs |-> NoLocals]

OrderQuiet ==
    /\ req = [p \in Procs |-> NoRequest]
    /\ resp = [p \in Procs |-> NoResponse]
    /\ orderSheet = [header |-> FALSE, rows |-> <<>>]
    /\ audit = [p \in Procs |-> <<>>]
    /\ mail = [p \in Procs |-> <<>>]
    /\ configSheet = EmptyConfig

(***************************************************************************)
(* verifyPrices as a function of its arguments                             *)
(***************************************************************************)
InitPrice ==
    /\ now = 0
    /\ RateQuiet
    /\ AllocQuiet
    /\ ProcQuiet
    /\ OrderQuiet
    /\ catalog \in Catalogs
    /\ \E first \in SubmittedItems :
          pvItems \in {<<first>>, <<first, GoodTee>>, <<GoodTee, first>>, <<first, CheapTee>>}
    /\ pvResult = NoVerification

\* One call of verifyPrices on the items and the catalog.
Verify ==
    /\ ~pvResult.done
    /\ pvResult' = verifyPrices(pvItems, catalog.products, catalog.designOptions,
                                catalog.customizationOptions)
    /\ UNCHANGED <<now, catalog, pvItems, rateVars, allocVars, procVars, orderVars>>

NextPrice == Verify

SpecPrice == InitPrice /\ [][NextPrice]_vars

(***************************************************************************)
(* Throttle calls over time                                                *)
(***************************************************************************)
\* The same call on the store that is never swept: with the last sweep at the
\* time of the call, cleanupExpiredEntries returns before its loop.
checkRateLimitUnswept(store, identifier, t, limit, window) ==
    checkRateLimit(store, t, identifier, t, limit, window)

\* The history of a call: a call that sets a new window start opens a new
\* window; the call is replayed on the store that is never swept.
RecordCall(k, t, out) ==
    LET before == rateLimitStore[k]
        after == out.store[k]
        opened == ~before.present \/ after.firstRequestTime # before.firstRequestTime
        ref == checkRateLimitUnswept(neverSwept, k, t, maxRequests, windowMs)
    IN  /\ rlWindow' = [rlWindow EXCEPT ![k] =
                           IF opened THEN <<out.result.allowed>>
                           ELSE Append(@, out.result.allowed)]
        /\ lastCall' = [made |-> TRUE, key |-> k, t |-> t,
                        before |-> before, result |-> out.result,
                        reference |-> ref.result]
        /\ neverSwept' = ref.store
        /\ calls' = calls + 1

\* Date.now() moves on: by a millisecond, to just before a window's end, or past a sweep interval.
TimeSteps == {1, windowMs - 1, CLEANUP_INTERVAL - windowMs}

Tick ==
    /\ \E dt \in TimeSteps :
          /\ now + dt <= MaxTime
          /\ dt = 1 => (now % (windowMs - 1)) < MaxFineTicks
          /\ now' = now + dt
    /\ UNCHANGED <<rateVars, catalog, priceVars, allocVars, procVars, orderVars>>

\* One call checkRateLimit(key, ORDER_RATE_LIMIT); it has no await, so it runs to completion.
RateCall(k) ==
    /\ calls < MaxCalls
    /\ LET out == checkRateLimit(rateLimitStore, lastCleanup, k, now, maxRequests, windowMs)
       IN  /\ rateLimitStore' = out.store
           /\ lastCleanup' = out.lastCleanup
           /\ RecordCall(k, now, out)
    /\ UNCHANGED <<now, catalog, priceVars, allocVars, procVars, orderVars>>

InitRate ==
    /\ now = 0
    /\ RateQuiet
    /\ catalog = EmptyCatalog
    /\ PriceQuiet
    /\ AllocQuiet
    /\ ProcQuiet
    /\ OrderQuiet

NextRate == Tick \/ \E k \in Keys : RateCall(k)

SpecRate == InitRate /\ [][NextRate]_vars

(***************************************************************************)
(* generateOrderNumber, one step per await (src/lib/orderNumber.ts)        *)
(***************************************************************************)
\* Date.now() moves on by a millisecond.
ClockTick ==
    /\ now < MaxClock
    /\ now' = now + 1
    /\ UNCHANGED <<rateVars, catalog, priceVars, allocVars, procVars, orderVars>>

\* A catch that rethrows: the request ends without an order number.
FallbackRaises(p, where) ==
    /\ loc' = [loc EXCEPT ![p].failedAt = where]
    /\ pc' = [pc EXCEPT ![p] = "responded"]

\* The catch of getNextSequenceNumber: the timestamp sequence is returned.
Fallback(p, where) ==
    /\ loc' = [loc EXCEPT ![p].sequence = TimestampSequence(now),
                          ![p].source = "fallback", ![p].failedAt = where]
    /\ pc' = [pc EXCEPT ![p] = "numbered"]

\* generateOrderNumber up to its first await: LOCAL returns the timestamp sequence.
GenStart(p) ==
    /\ pc[p] = "gen"
    /\ IF env[p] = "LOCAL"
       THEN /\ loc' = [loc EXCEPT ![p].sequence = TimestampSequence(now),
                                  ![p].source = "local", ![p].date = DateOf(now)]
            /\ pc' = [pc EXCEPT ![p] = "numbered"]
       ELSE /\ pc' = [pc EXCEPT ![p] = "getClient"]
            /\ loc' = [loc EXCEPT ![p].date = DateOf(now)]
    /\ UNCHANGED <<now, rateVars, catalog, priceVars, allocVars, orderVars>>

\* await getSheetsClient(), then getSheetId('config'); either may throw.
GetClient(p) ==
    /\ pc[p] = "getClient"
    /\ \E ok \in BOOLEAN :
          IF ok THEN pc' = [pc EXCEPT ![p] = "headerCheck"] /\ UNCHANGED loc
          ELSE Fallback(p, "client")
    /\ UNCHANGED <<now, rateVars, catalog, priceVars, allocVars, orderVars>>

\* await values.get(OrderSequence!A1:C1): throws when the sheet is missing or the
\* call fails; headerAnswer keeps which of the three the caller met.
HeaderCheck(p) ==
    /\ pc[p] = "headerCheck"
    /\ \E ok \in BOOLEAN :
          /\ pc' = [pc EXCEPT ![p] = IF ok /\ seqSheet.exists THEN "append" ELSE "addSheet"]
          /\ loc' = [loc EXCEPT ![p].headerAnswer =
                         IF ~seqSheet.exists THEN "missing"
                         ELSE IF ok THEN "found" ELSE "fails"]
    /\ UNCHANGED <<now, rateVars, catalog, priceVars, allocVars, orderVars>>

\* await batchUpdate(addSheet): throws when the sheet exists already ("exists")
\* or the call fails.
AddSheet(p) ==
    /\ pc[p] = "addSheet"
    /\ \E ok \in BOOLEAN :
          IF seqSheet.exists
          THEN /\ Fallback(p, "exists")
               /\ UNCHANGED seqSheet
          ELSE IF ok
          THEN /\ seqSheet' = [seqSheet EXCEPT !.exists = TRUE]
               /\ pc' = [pc EXCEPT ![p] = "writeHeader"]
               /\ UNCHANGED loc
          ELSE /\ Fallback(p, "header")
               /\ UNCHANGED seqSheet
    /\ UNCHANGED <<now, rateVars, catalog, priceVars, env, orderVars>>

\* await values.update(A1:C1) with the header row.
WriteHeader(p) ==
    /\ pc[p] = "writeHeader"
    /\ \E ok \in BOOLEAN :
          IF ok
          THEN /\ seqSheet' = [seqSheet EXCEPT !.header = TRUE]
               /\ pc' = [pc EXCEPT ![p] = "append"]
               /\ UNCHANGED loc
          ELSE /\ Fallback(p, "header")
               /\ UNCHANGED seqSheet
    /\ UNCHANGED <<now, rateVars, catalog, priceVars, env, orderVars>>

\* await values.append(A2:C2): the call fails, or the row is appended and the
\* answer carries the updatedRange or lacks it.
AppendRow(p) ==
    /\ pc[p] = "append"
    /\ \E answer \in {"range", "norange", "fails"} :
          IF answer = "fails" \/ ~seqSheet.exists
          THEN /\ Fallback(p, "append")
               /\ UNCHANGED seqSheet
          ELSE /\ seqSheet' = WithRow(seqSheet, p, now, env[p])
               /\ IF answer = "norange"
                  THEN Fallback(p, "append")
                  ELSE LET rowNumber ==
                               ParseInt(RowMatch(UpdatedRange(AssignedRow(seqSheet))))
                       IN  /\ loc' = [loc EXCEPT ![p].rowNumber = rowNumber,
                                                 ![p].sequence = SequenceOfRow(rowNumber)]
                           /\ pc' = [pc EXCEPT ![p] = "update"]
    /\ UNCHANGED <<now, rateVars, catalog, priceVars, env, orderVars>>

\* An update of the sequence column whose failure reaches the outer catch.
UpdateRowFailing(p) ==
    /\ pc[p] = "update"
    /\ \E ok \in BOOLEAN :
          IF ok
          THEN /\ seqSheet' = WithSequence(seqSheet, loc[p].rowNumber, loc[p].sequence)
               /\ loc' = [loc EXCEPT ![p].source = "ledger", ![p].recorded = TRUE]
               /\ pc' = [pc EXCEPT ![p] = "numbered"]
          ELSE /\ Fallback(p, "append")
               /\ UNCHANGED seqSheet
    /\ UNCHANGED <<now, rateVars, catalog, priceVars, env, orderVars>>

\* await values.update(C<row>): a failure is logged and the sequence is returned anyway.
UpdateRow(p) ==
    /\ pc[p] = "update"
    /\ \E ok \in BOOLEAN :
          /\ seqSheet' = IF ok THEN WithSequence(seqSheet, loc[p].rowNumber, loc[p].sequence)
                         ELSE seqSheet
          /\ loc' = [loc EXCEPT ![p].source = "ledger", ![p].recorded = ok]
    /\ pc' = [pc EXCEPT ![p] = "numbered"]
    /\ UNCHANGED <<now, rateVars, catalog, priceVars, env, orderVars>>

Allocate(p) ==
    \/ GenStart(p)
    \/ GetClient(p)
    \/ HeaderCheck(p)
    \/ AddSheet(p)
    \/ WriteHeader(p)
    \/ AppendRow(p)
    \/ UpdateRow(p)

Environments == {"PROD", "PREVIEW", "LOCAL"}

InitAlloc ==
    /\ now = 0
    /\ RateQuiet
    /\ catalog = EmptyCatalog
    /\ PriceQuiet
    /\ env \in [Procs -> Environments]
    /\ seqSheet \in {NoSheet} \cup
          { [exists |-> TRUE, header |-> TRUE, prior |-> n, rows |-> <<>>]
            : n \in {0, PriorRows, SequenceModulus - 2} }
    /\ pc = [p \in Procs |-> "gen"]
    /\ loc = [p \in Procs |-> NoLocals]
    /\ OrderQuiet

NextAlloc == ClockTick \/ \E p \in Procs : Allocate(p)

SpecAlloc == InitAlloc /\ [][NextAlloc]_vars

(***************************************************************************)
(* POST /orders/submit, one step per await (route.ts)                      *)
(***************************************************************************)
FullTee == [GoodTee EXCEPT !.quantity = 2, !.designOptions = <<Option(1, 500)>>,
                           !.customizationOptions = <<Option(1, 300)>>,
                           !.totalPrice = 2300]
PennyTee == [GoodTee EXCEPT !.quantity = 2, !.totalPrice = 1501]
GhostTee == [GoodTee EXCEPT !.designOptions = <<Option(9, 500)>>]
BigTee == [GoodTee EXCEPT !.size = "2XL", !.sizeUpcharge = 200, !.itemPrice = 1700,
                          !.totalPrice = 1700]
ZeroTee == [GoodTee EXCEPT !.quantity = 0]

ItemLists ==
    {<<FullTee>>, <<PennyTee>>, <<GhostTee>>, <<GoodTee, CheapTee, GoodTee>>,
     <<BigTee>>, <<ZeroTee, CheapTee>>, <<>>}

Bodies ==
    { [json |-> TRUE, contactInfo |-> TRUE, items |-> items, totalAmount |-> total]
      : items \in ItemLists, total \in {0, 4600} }
    \cup { [json |-> TRUE, contactInfo |-> FALSE, items |-> <<FullTee>>,
            totalAmount |-> 4600],
           [json |-> TRUE, contactInfo |-> TRUE, items |-> <<FullTee>>,
            totalAmount |-> Cents(MaxTotalAmount) + 1],
           NoRequest.body }

Configs == [admin : BOOLEAN, tech : BOOLEAN]
StoreCatalog == [products |-> <<Cap, Tee>>, designOptions |-> DesignCatalog,
                 customizationOptions |-> CustomCatalog]

OrderNumberOf(p) == OrderNumber(env[p], "PHENOMS", loc[p].date, loc[p].sequence)

AuditRecord(orderNumber, step, detail) ==
    [orderNumber |-> orderNumber, step |-> step, detail |-> detail]

\* STEP 1: getClientIP, checkRateLimit and the rate limit headers; 429 on denial.
Receive(p) ==
    /\ pc[p] = "idle"
    /\ LET out == checkRateLimit(rateLimitStore, lastCleanup, req[p].key, now,
                                 maxRequests, windowMs)
           rateLimitHeaders == getRateLimitHeaders(out.result, maxRequests)
       IN  /\ rateLimitStore' = out.store
           /\ lastCleanup' = out.lastCleanup
           /\ RecordCall(req[p].key, now, out)
           /\ loc' = [loc EXCEPT ![p].rateLimitResult = out.result]
           /\ IF ~out.result.allowed
              THEN /\ resp' = [resp EXCEPT ![p] =
                         [Response(429, "Too many orders submitted", rateLimitHeaders)
                          EXCEPT !.retryAfter = CeilDiv(out.result.resetIn, 1000),
                                 !.retryAfterHeader = CeilDiv(out.result.resetIn, 1000)]]
                   /\ pc' = [pc EXCEPT ![p] = "responded"]
              ELSE /\ pc' = [pc EXCEPT ![p] = "parse"]
                   /\ UNCHANGED resp
    /\ UNCHANGED <<now, catalog, priceVars, allocVars, req, orderSheet, audit, mail,
                   configSheet>>

\* STEP 2: await request.json(), validateOrderSubmission; 400 on issues, the
\* outer catch (500, logged as UNKNOWN) when the body is no JSON.
Parse(p) ==
    /\ pc[p] = "parse"
    /\ LET body == req[p].body
           rateLimitHeaders == getRateLimitHeaders(loc[p].rateLimitResult, maxRequests)
           validationResult == validateOrderSubmission(body)
       IN  IF ~body.json
           THEN /\ audit' = [audit EXCEPT ![p] =
                       Append(@, AuditRecord("UNKNOWN", "Order Submission", <<>>))]
                /\ resp' = [resp EXCEPT ![p] =
                       Response(500, "Internal server error", NoHeaders)]
                /\ pc' = [pc EXCEPT ![p] = "responded"]
                /\ UNCHANGED loc
           ELSE IF ~validationResult.success
           THEN /\ resp' = [resp EXCEPT ![p] =
                       [Response(400, "Invalid order data", rateLimitHeaders)
                        EXCEPT !.details = validationResult.errors]]
                /\ pc' = [pc EXCEPT ![p] = "responded"]
                /\ UNCHANGED <<loc, audit>>
           ELSE /\ loc' = [loc EXCEPT ![p].items = body.items]
                /\ pc' = [pc EXCEPT ![p] = "fetch"]
                /\ UNCHANGED <<resp, audit>>
    /\ UNCHANGED <<now, rateVars, catalog, priceVars, allocVars, req, orderSheet, mail,
                   configSheet>>

\* STEP 3 and 4: the three catalog fetches (each returns [] when it fails),
\* verifyPrices (400 and a PRICE_TAMPERING record on a discrepancy), then the
\* server-calculated total.
FetchVerify(p) ==
    /\ pc[p] = "fetch"
    /\ \E okProducts \in BOOLEAN, okDesign \in BOOLEAN, okCustom \in BOOLEAN :
          LET products == IF okProducts THEN fetchProducts(catalog) ELSE <<>>
              designOptions == IF okDesign THEN catalog.designOptions ELSE <<>>
              customizationOptions ==
                  IF okCustom THEN catalog.customizationOptions ELSE <<>>
              priceVerification ==
                  verifyPrices(loc[p].items, VerifierProducts(products), designOptions,
                               customizationOptions)
              rateLimitHeaders ==
                  getRateLimitHeaders(loc[p].rateLimitResult, maxRequests)
          IN  IF ~priceVerification.valid
              THEN /\ audit' = [audit EXCEPT ![p] =
                          Append(@, AuditRecord("PRICE_TAMPERING", "Price Verification",
                                                priceVerification.discrepancies))]
                   /\ resp' = [resp EXCEPT ![p] =
                          PriceRejection(priceVerification, rateLimitHeaders)]
                   /\ pc' = [pc EXCEPT ![p] = "responded"]
                   /\ loc' = [loc EXCEPT ![p].fetched = <<okProducts, okDesign, okCustom>>]
              ELSE /\ loc' = [loc EXCEPT
                          ![p].fetched = <<okProducts, okDesign, okCustom>>,
                          ![p].serverCalculatedTotal =
                              OrderTotal([items |-> loc[p].items,
                                          totalAmount |-> req[p].body.totalAmount],
                                         products, designOptions, customizationOptions)]
                   /\ pc' = [pc EXCEPT ![p] = "gen"]
                   /\ UNCHANGED <<resp, audit>>
    /\ UNCHANGED <<now, rateVars, catalog, priceVars, allocVars, req, orderSheet, mail,
                   configSheet>>

\* STEP 5 to 7: the order number is returned, the order object is built, and
\* await fetchMergedConfigForStore (an empty config when the fetch fails).
ConfigFetch(p) ==
    /\ pc[p] = "numbered"
    /\ \E config \in {configSheet, EmptyConfig} :
          loc' = [loc EXCEPT ![p].orderNumber = OrderNumberOf(p), ![p].config = config]
    /\ pc' = [pc EXCEPT ![p] = "sheetCheck"]
    /\ UNCHANGED <<now, rateVars, catalog, priceVars, allocVars, orderVars>>

\* The success response: the short order number and the rate limit headers.
Respond200(p) ==
    resp' = [resp EXCEPT ![p] =
                [Response(200, "", getRateLimitHeaders(loc[p].rateLimitResult, maxRequests))
                 EXCEPT !.success = TRUE,
                        !.orderNumber = getShortOrderNumber(loc[p].orderNumber)]]

\* A failure of fulfillment surfaced to the client as a 500.
FailFulfillmentSurfaced(p, step) ==
    /\ loc' = [loc EXCEPT ![p].steps = Append(@, [step |-> step, ok |-> FALSE])]
    /\ audit' = [audit EXCEPT ![p] =
                    Append(@, AuditRecord(loc[p].orderNumber, "Order Processing", step))]
    /\ resp' = [resp EXCEPT ![p] = Response(500, "Internal server error", NoHeaders)]
    /\ pc' = [pc EXCEPT ![p] = "responded"]

\* A failure of fulfillment answered with success and left out of the error log.
FailFulfillmentSilent(p, step) ==
    /\ loc' = [loc EXCEPT ![p].steps = Append(@, [step |-> step, ok |-> FALSE]),
                          ![p].techSupport =
                              IF loc[p].config.tech THEN "pending" ELSE "unconfigured"]
    /\ UNCHANGED audit
    /\ Respond200(p)
    /\ pc' = [pc EXCEPT ![p] = "responded"]

\* The catch of processOrderAsync and the catch of POST around it: the failure
\* is logged twice with the order number, sendTechSupportEmail is started and
\* not awaited, and the success response is returned.
FailFulfillment(p, step) ==
    /\ loc' = [loc EXCEPT ![p].steps = Append(@, [step |-> step, ok |-> FALSE]),
                          ![p].techSupport =
                              IF loc[p].config.tech THEN "pending" ELSE "unconfigured"]
    /\ audit' = [audit EXCEPT ![p] =
                    @ \o <<AuditRecord(loc[p].orderNumber, "Order Processing", step),
                           AuditRecord(loc[p].orderNumber, "Order Processing", step)>>]
    /\ Respond200(p)
    /\ pc' = [pc EXCEPT ![p] = "responded"]

StepDone(p, step, next) ==
    /\ loc' = [loc EXCEPT ![p].steps = Append(@, [step |-> step, ok |-> TRUE])]
    /\ pc' = [pc EXCEPT ![p] = next]
    /\ UNCHANGED <<resp, audit>>

\* A ledger write whose failure is logged and stepped over.
SheetCheckContinues(p) ==
    /\ pc[p] = "sheetCheck"
    /\ \E ok \in BOOLEAN :
          IF ok
          THEN /\ pc' = [pc EXCEPT ![p] =
                      IF orderSheet.header THEN "sheetAppend" ELSE "sheetHeader"]
               /\ UNCHANGED <<loc, resp, audit>>
          ELSE /\ loc' = [loc EXCEPT ![p].steps = Append(@, [step |-> "sheets", ok |-> FALSE])]
               /\ audit' = [audit EXCEPT ![p] =
                      Append(@, AuditRecord(loc[p].orderNumber, "Order Processing", "sheets"))]
               /\ pc' = [pc EXCEPT ![p] = "pdf"]
               /\ UNCHANGED resp
    /\ UNCHANGED <<now, rateVars, catalog, priceVars, allocVars, req, orderSheet, mail,
                   configSheet>>

\* Step 1, submitOrder: await getSheetsClient() and values.get(A1:P1).
SheetCheck(p) ==
    /\ pc[p] = "sheetCheck"
    /\ \E ok \in BOOLEAN :
          IF ok
          THEN /\ pc' = [pc EXCEPT ![p] =
                      IF orderSheet.header THEN "sheetAppend" ELSE "sheetHeader"]
               /\ UNCHANGED <<loc, resp, audit>>
          ELSE FailFulfillment(p, "sheets")
    /\ UNCHANGED <<now, rateVars, catalog, priceVars, allocVars, req, orderSheet, mail,
                   configSheet>>

\* Step 1, submitOrder: await values.update(A1:T1) with the header row.
SheetHeader(p) ==
    /\ pc[p] = "sheetHeader"
    /\ \E ok \in BOOLEAN :
          IF ok
          THEN /\ orderSheet' = [orderSheet EXCEPT !.header = TRUE]
               /\ pc' = [pc EXCEPT ![p] = "sheetAppend"]
               /\ UNCHANGED <<loc, resp, audit>>
          ELSE /\ FailFulfillment(p, "sheets")
               /\ UNCHANGED orderSheet
    /\ UNCHANGED <<now, rateVars, catalog, priceVars, allocVars, req, mail, configSheet>>

\* Step 1, submitOrder: await values.append(A2:T2) with the rows of the order.
SheetAppend(p) ==
    /\ pc[p] = "sheetAppend"
    /\ \E ok \in BOOLEAN :
          IF ok
          THEN /\ orderSheet' = [orderSheet EXCEPT !.rows =
                      @ \o OrderRows(loc[p].items, loc[p].orderNumber,
                                     loc[p].serverCalculatedTotal, p)]
               /\ StepDone(p, "sheets", "pdf")
          ELSE /\ FailFulfillment(p, "sheets")
               /\ UNCHANGED orderSheet
    /\ UNCHANGED <<now, rateVars, catalog, priceVars, allocVars, req, mail, configSheet>>

\* Step 2: await generateInvoicePDFBuffer(order, 'professional', config).
GeneratePdf(p) ==
    /\ pc[p] = "pdf"
    /\ \E ok \in BOOLEAN :
          IF ok
          THEN /\ loc' = [loc EXCEPT ![p].steps = Append(@, [step |-> "pdf", ok |-> TRUE]),
                                     ![p].pdfBuffer = TRUE]
               /\ pc' = [pc EXCEPT ![p] = "customer"]
               /\ UNCHANGED <<resp, audit>>
          ELSE FailFulfillment(p, "pdf")
    /\ UNCHANGED <<now, rateVars, catalog, priceVars, allocVars, req, orderSheet, mail,
                   configSheet>>

Email(to, p) ==
    [to |-> to, orderNumber |-> getShortOrderNumber(loc[p].orderNumber),
     total |-> loc[p].serverCalculatedTotal, attachment |-> loc[p].pdfBuffer]

\* Step 3: await sendEmail to the customer, the invoice attached when there is one.
CustomerEmail(p) ==
    /\ pc[p] = "customer"
    /\ \E ok \in BOOLEAN :
          IF ok
          THEN /\ mail' = [mail EXCEPT ![p] = Append(@, Email("customer", p))]
               /\ StepDone(p, "customer", "admin")
          ELSE /\ FailFulfillment(p, "customer")
               /\ UNCHANGED mail
    /\ UNCHANGED <<now, rateVars, catalog, priceVars, allocVars, req, orderSheet,
                   configSheet>>

\* Step 4: await sendEmail to the admin address when the config has one, then
\* the success response.
AdminEmail(p) ==
    /\ pc[p] = "admin"
    /\ \E ok \in BOOLEAN :
          IF ~loc[p].config.admin
          THEN /\ Respond200(p)
               /\ pc' = [pc EXCEPT ![p] = "responded"]
               /\ UNCHANGED <<loc, audit, mail>>
          ELSE IF ok
          THEN /\ mail' = [mail EXCEPT ![p] = Append(@, Email("admin", p))]
               /\ loc' = [loc EXCEPT ![p].steps = Append(@, [step |-> "admin", ok |-> TRUE])]
               /\ Respond200(p)
               /\ pc' = [pc EXCEPT ![p] = "responded"]
               /\ UNCHANGED audit
          ELSE /\ FailFulfillment(p, "admin")
               /\ UNCHANGED mail
    /\ UNCHANGED <<now, rateVars, catalog, priceVars, allocVars, req, orderSheet,
                   configSheet>>

\* sendTechSupportEmail: await sendEmail to Tech_Support_Email; a failure is only logged.
TechSupportEmail(p) ==
    /\ loc[p].techSupport = "pending"
    /\ \E ok \in BOOLEAN :
          IF ok
          THEN /\ mail' = [mail EXCEPT ![p] = Append(@, Email("tech", p))]
               /\ loc' = [loc EXCEPT ![p].techSupport = "sent"]
          ELSE /\ loc' = [loc EXCEPT ![p].techSupport = "failed"]
               /\ UNCHANGED mail
    /\ UNCHANGED <<now, rateVars, catalog, priceVars, allocVars, pc, req, resp,
                   orderSheet, audit, configSheet>>

Submit(p) ==
    \/ Receive(p)
    \/ Parse(p)
    \/ FetchVerify(p)
    \/ ConfigFetch(p)
    \/ SheetCheck(p)
    \/ SheetHeader(p)
    \/ SheetAppend(p)
    \/ GeneratePdf(p)
    \/ CustomerEmail(p)
    \/ AdminEmail(p)
    \/ TechSupportEmail(p)

\* The throttle after earlier requests of client ip1, half a second into its
\* window.  The clock does not advance while the submissions are handled.
InitThrottle ==
    /\ now = SequenceModulus + 500
    /\ rateLimitStore \in
          { [k \in Keys |-> IF k = "ip1" THEN e ELSE NoEntry]
            : e \in {NoEntry} \cup
                    { [present |-> TRUE, count |-> c, firstRequestTime |-> SequenceModulus]
                      : c \in {maxRequests - 1, maxRequests} } }
    /\ lastCleanup = 0
    /\ rlWindow = [k \in Keys |-> [i \in 1..rateLimitStore[k].count |-> TRUE]]
    /\ lastCall = NoCall
    /\ neverSwept = rateLimitStore
    /\ calls = 0

\* One submission, any body of Bodies from either client, handled by one deployment.
Init ==
    /\ InitThrottle
    /\ catalog = StoreCatalog
    /\ PriceQuiet
    /\ \E e \in {"PROD", "LOCAL"} : env = [p \in Procs |-> e]
    /\ seqSheet \in {NoSheet, [exists |-> TRUE, header |-> TRUE, prior |-> 0, rows |-> <<>>]}
    /\ pc = [p \in Procs |-> IF p = "r1" THEN "idle" ELSE "off"]
    /\ loc = [p \in Procs |-> NoLocals]
    /\ \E k \in Keys, body \in Bodies :
          req = [p \in Procs |-> IF p = "r1" THEN [key |-> k, body |-> body] ELSE NoRequest]
    /\ resp = [p \in Procs |-> NoResponse]
    /\ orderSheet \in {[header |-> h, rows |-> <<>>] : h \in BOOLEAN}
    /\ audit = [p \in Procs |-> <<>>]
    /\ mail = [p \in Procs |-> <<>>]
    /\ configSheet \in Configs

Next == \E p \in Procs : Allocate(p) \/ Submit(p)

Spec == Init /\ [][Next]_vars

\* The runtime keeps running every started handler and every started promise:
\* a step that can be taken is eventually taken.
SpecLive == Spec /\ WF_vars(Next)

\* Two submissions of the same items handled concurrently by one local
\* deployment (getEnvironment() = LOCAL, where getNextSequenceNumber returns
\* before its first await): r1 declares 46.00, r2 either total.
PairItemLists == {<<FullTee>>, <<FullTee, GoodTee>>, <<GoodTee, CheapTee, GoodTee>>}

InitPair ==
    /\ InitThrottle
    /\ catalog = StoreCatalog
    /\ PriceQuiet
    /\ env = [p \in Procs |-> "LOCAL"]
    /\ seqSheet = NoSheet
    /\ pc = [p \in Procs |-> "idle"]
    /\ loc = [p \in Procs |-> NoLocals]
    /\ \E items \in PairItemLists, k \in Keys, total \in {0, 4600} :
          req = [p \in Procs |->
                    [key |-> IF p = "r1" THEN "ip1" ELSE k,
                     body |-> [json |-> TRUE, contactInfo |-> TRUE, items |-> items,
                               totalAmount |-> IF p = "r1" THEN 4600 ELSE total]]]
    /\ resp = [p \in Procs |-> NoResponse]
    /\ orderSheet = [header |-> FALSE, rows |-> <<>>]
    /\ audit = [p \in Procs |-> <<>>]
    /\ mail = [p \in Procs |-> <<>>]
    /\ configSheet = [admin |-> TRUE, tech |-> TRUE]

NextPair == \E p \in Procs : GenStart(p) \/ Submit(p)

SpecPair == InitPair /\ [][NextPair]_vars

(***************************************************************************)
(* Claims                                                                  *)
(***************************************************************************)

C6_WindowAdmitsFirstN ==
    \A k \in Keys :
        /\ \A i \in 1..Len(rlWindow[k]) : rlWindow[k][i] = (i <= maxRequests)
        /\ rateLimitStore[k].present => rateLimitStore[k].count = Len(rlWindow[k])

\* A window of one key with a denied call, while another key has an open window too.
C6_Witness ==
    \E k \in Keys, k2 \in Keys :
        /\ k # k2
        /\ Len(rlWindow[k]) > maxRequests
        /\ rateLimitStore[k].present
        /\ Len(rlWindow[k2]) >= 1

\* C7: a call made once windowMs has elapsed since the key's window start
\* (now - windowStart >= windowMs) is allowed and opens a fresh window:
\* count 1, window start now, remaining maxRequests - 1, resetIn windowMs.
C7_ResetOnceWindowElapsed ==
    (/\ lastCall.made
     /\ lastCall.before.present
     /\ lastCall.t - lastCall.before.firstRequestTime >= windowMs)
    => /\ lastCall.result = [allowed |-> TRUE, remaining |-> maxRequests - 1,
                              resetIn |-> windowMs, current |-> 1]
       /\ rateLimitStore[lastCall.key] =
              [present |-> TRUE, count |-> 1, firstRequestTime |-> lastCall.t]

\* C2: if some item's submitted itemPrice differs by more than 0.01 from the
\* catalog base price of its product plus the catalog upcharge of its size,
\* verifyPrices returns valid = false with a discrepancy naming that product;
\* an item whose productId is not in the catalog yields valid = false.
C2_TamperedPriceRejected ==
    pvResult.done =>
        \A i \in 1..Len(pvItems) :
            LET item == pvItems[i]
                matches == {j \in 1..Len(catalog.products) :
                               catalog.products[j].id = item.productId}
            IN  IF matches = {}
                THEN ~pvResult.valid
                ELSE LET product == catalog.products[CHOOSE j \in matches :
                                                        \A m \in matches : j <= m]
                         sizes == {n \in 1..Len(product.availableSizes) :
                                      product.availableSizes[n].size = item.size}
                         upcharge == IF sizes = {} THEN 0
                                     ELSE product.availableSizes[
                                              CHOOSE n \in sizes : \A m \in sizes : n <= m
                                          ].upcharge
                         diff == item.itemPrice - (product.price + upcharge)
                     IN  (diff > Epsilon \/ diff < -Epsilon) =>
                            /\ ~pvResult.valid
                            /\ \E d \in 1..Len(pvResult.discrepancies) :
                                  pvResult.discrepancies[d].ref = product.name

\* The tee of the catalog costs 15.00 and an item claims 10.00 for it, next to a correct item.
C2_Witness ==
    /\ pvResult.done
    /\ ~pvResult.valid
    /\ \E j \in 1..Len(catalog.products) :
          catalog.products[j].id = "tee" /\ catalog.products[j].price = 1500
    /\ pvItems = <<GoodTee, CheapTee>>

\* The catalog a request verified its prices against: what its three fetches returned.
FetchedProducts(p) ==
    VerifierProducts(IF loc[p].fetched[1] THEN fetchProducts(catalog) ELSE <<>>)
FetchedDesignOptions(p) == IF loc[p].fetched[2] THEN catalog.designOptions ELSE <<>>
FetchedCustomizationOptions(p) ==
    IF loc[p].fetched[3] THEN catalog.customizationOptions ELSE <<>>

\* C3: a request answered with 400 has, when the response is returned, no row
\* in the sequence ledger and no order number, no row in the order ledger, no
\* document and no notification; and a request admitted by the throttle with
\* some item that has a price discrepancy is answered with 400 as a whole.
C3_RejectionHasNoSideEffects ==
    \A p \in Procs :
        /\ resp[p].status = 400 =>
              /\ \A i \in 1..Len(seqSheet.rows) : seqSheet.rows[i].by # p
              /\ loc[p].source = "none"
              /\ loc[p].orderNumber = NoOrderNumber
              /\ \A i \in 1..Len(orderSheet.rows) : orderSheet.rows[i].by # p
              /\ ~loc[p].pdfBuffer
              /\ loc[p].steps = <<>>
              /\ mail[p] = <<>>
        /\ (/\ pc[p] = "responded"
            /\ loc[p].rateLimitResult.allowed
            /\ \E i \in 1..Len(loc[p].items) :
                  ItemDiscrepancies(loc[p].items[i], FetchedProducts(p),
                                    FetchedDesignOptions(p),
                                    FetchedCustomizationOptions(p)) # <<>>)
           => resp[p].status = 400

\* One underpriced tee between two correct ones: the order was rejected and
\* the rejection logged as price tampering.
C3_Witness ==
    \E p \in Procs :
        /\ resp[p].status = 400
        /\ req[p].body.items = <<GoodTee, CheapTee, GoodTee>>
        /\ loc[p].fetched = <<TRUE, TRUE, TRUE>>
        /\ \E i \in 1..Len(audit[p]) : audit[p][i].orderNumber = "PRICE_TAMPERING"

\* C4: two submissions with the same items, both admitted by the throttle and
\* served the same catalog, get the same response status whatever totals they
\* declare, and the same order total in their ledger rows and notifications
\* and in the order the document is generated from.
C4_TotalIndependentOfDeclaredTotal ==
    \A p \in Procs, q \in Procs :
        (/\ req[p].body.items = req[q].body.items
         /\ loc[p].fetched = loc[q].fetched)
        => /\ (/\ pc[p] = "responded" /\ pc[q] = "responded"
               /\ loc[p].rateLimitResult.allowed /\ loc[q].rateLimitResult.allowed)
              => /\ resp[p].status = resp[q].status
                 /\ resp[p].status = 200
                       => loc[p].serverCalculatedTotal = loc[q].serverCalculatedTotal
           /\ \A i \in 1..Len(orderSheet.rows), j \in 1..Len(orderSheet.rows) :
                 (orderSheet.rows[i].by = p /\ orderSheet.rows[j].by = q)
                 => orderSheet.rows[i].orderTotal = orderSheet.rows[j].orderTotal
           /\ \A i \in 1..Len(mail[p]), j \in 1..Len(mail[q]) :
                 mail[p][i].total = mail[q][j].total

\* Two accepted submissions of the same items that declared different totals,
\* both with ledger rows and a customer notification.
C4_Witness ==
    /\ req["r1"].body.totalAmount # req["r2"].body.totalAmount
    /\ req["r1"].body.items = <<FullTee>>
    /\ \A p \in Procs :
          /\ resp[p].status = 200
          /\ loc[p].fetched = <<TRUE, TRUE, TRUE>>
          /\ \E i \in 1..Len(orderSheet.rows) : orderSheet.rows[i].by = p
          /\ \E i \in 1..Len(mail[p]) : mail[p][i].to = "customer"

\* The sum over the items of totalPrice * quantity.
RECURSIVE SumItemTotals(_)
SumItemTotals(items) ==
    IF items = <<>> THEN 0
    ELSE Head(items).totalPrice * Head(items).quantity + SumItemTotals(Tail(items))

\* C5: for every order that reaches fulfillment, order.totalAmount equals the
\* sum over its items of totalPrice * quantity, each per-unit totalPrice being
\* itemPrice plus the prices of its design and customization options; the
\* order total on a ledger row is the sum of the item totals on the rows of
\* the same order.
C5_TotalIsSumOfItemTotals ==
    \A p \in Procs :
        loc[p].orderNumber # NoOrderNumber =>
            /\ loc[p].serverCalculatedTotal = SumItemTotals(loc[p].items)
            /\ \A i \in 1..Len(loc[p].items) :
                  loc[p].items[i].totalPrice =
                      loc[p].items[i].itemPrice
                      + SumPrices(loc[p].items[i].designOptions)
                      + SumPrices(loc[p].items[i].customizationOptions)

\* C8: generateOrderNumber never raises.  When the ledger client cannot be
\* created, the header check or creation fails, or the append call fails, the
\* sequence returned is the current time modulo 1,000,000, the request is not
\* answered with a 500, and its response comes after fulfillment was attempted
\* and is the success response.
C8_FallbackNeverBlocksOrder ==
    \A p \in Procs :
        /\ loc[p].failedAt # "none" =>
              /\ loc[p].failedAt \in {"client", "header", "exists", "append"}
              /\ loc[p].source = "fallback"
              /\ loc[p].sequence = now % SequenceModulus
              /\ resp[p].status # 500
              /\ pc[p] = "responded" =>
                    /\ resp[p].status = 200
                    /\ loc[p].steps # <<>>
                    /\ getShortOrderNumber(loc[p].orderNumber)
                           = PadStart(Digits(now % SequenceModulus), PadWidth)
        /\ (loc[p].source \in {"ledger", "local"}) => loc[p].failedAt = "none"

\* The append call failed for a request, which was then answered after its
\* ledger row was written under the fallback number.
C8_Witness ==
    \E p \in Procs :
        /\ loc[p].failedAt = "append"
        /\ pc[p] = "responded"
        /\ now > SequenceModulus
        /\ \E i \in 1..Len(orderSheet.rows) :
              /\ orderSheet.rows[i].by = p
              /\ orderSheet.rows[i].orderNumber.sequence
                     = PadStart(Digits(now % SequenceModulus), PadWidth)

\* C9: every request that obtained an order number and was answered got 200
\* with success and the short order number, whichever fulfillment step failed;
\* success is never returned to a request without an order number.
C9_SuccessIffOrderNumber ==
    \A p \in Procs :
        /\ (pc[p] = "responded" /\ loc[p].source # "none") =>
              /\ resp[p].status = 200
              /\ resp[p].success
              /\ resp[p].orderNumber = getShortOrderNumber(OrderNumberOf(p))
        /\ resp[p].success =>
              /\ loc[p].source # "none"
              /\ loc[p].orderNumber # NoOrderNumber
              /\ resp[p].orderNumber = getShortOrderNumber(loc[p].orderNumber)

\* A request whose customer notification failed, after the ledger write and
\* the document, and that was answered with success.
C9_Witness ==
    \E p \in Procs :
        /\ resp[p].success
        /\ Len(loc[p].steps) = 3
        /\ loc[p].steps[3] = [step |-> "customer", ok |-> FALSE]

\* C10: when the ledger write of an order fails, no document is generated and
\* no customer or admin notification is attempted for it, the failure is
\* logged with the order number by processOrderAsync and again by its caller,
\* and sendTechSupportEmail is called.
C10_LedgerFailureHaltsFulfillment ==
    \A p \in Procs :
        (\E i \in 1..Len(loc[p].steps) : loc[p].steps[i] = [step |-> "sheets", ok |-> FALSE])
        => /\ loc[p].steps = <<[step |-> "sheets", ok |-> FALSE]>>
           /\ ~loc[p].pdfBuffer
           /\ \A i \in 1..Len(mail[p]) : mail[p][i].to = "tech"
           /\ audit[p] = <<AuditRecord(loc[p].orderNumber, "Order Processing", "sheets"),
                           AuditRecord(loc[p].orderNumber, "Order Processing", "sheets")>>
           /\ loc[p].orderNumber # NoOrderNumber
           /\ loc[p].techSupport # "none"
           /\ loc[p].config.tech => loc[p].techSupport \in {"pending", "sent", "failed"}

\* The append of the order rows failed after the header was written, and the
\* tech support address was notified.
C10_Witness ==
    \E p \in Procs :
        /\ loc[p].steps = <<[step |-> "sheets", ok |-> FALSE]>>
        /\ orderSheet.header
        /\ orderSheet.rows = <<>>
        /\ loc[p].techSupport = "sent"

\* The fulfillment step of a request that failed, "none" when none did.
FailedStep(p) ==
    IF \E i \in 1..Len(loc[p].steps) : ~loc[p].steps[i].ok
    THEN loc[p].steps[CHOOSE i \in 1..Len(loc[p].steps) : ~loc[p].steps[i].ok].step
    ELSE "none"

\* The fulfillment steps of a request that were attempted.
AttemptedSteps(p) == {loc[p].steps[i].step : i \in 1..Len(loc[p].steps)}

\* C11: when document generation raises for an order whose ledger write
\* completed, the rows of the order stay in the order ledger and, by the time
\* the request is answered, the customer notification was attempted, without
\* an attachment.
C11_PdfFailureStillNotifiesCustomer ==
    \A p \in Procs :
        (pc[p] = "responded" /\ FailedStep(p) = "pdf")
        => /\ \E i \in 1..Len(orderSheet.rows) : orderSheet.rows[i].by = p
           /\ "customer" \in AttemptedSteps(p)
           /\ \A i \in 1..Len(mail[p]) :
                 mail[p][i].to = "customer" => ~mail[p][i].attachment

\* C12: a failure of document generation, customer notification or admin
\* notification is caught at that step: processOrderAsync does not raise to
\* its caller (whose catch logs and calls sendTechSupportEmail), and the later
\* steps are attempted, the admin notification after a failed customer
\* notification in particular.
C12_LaterStepsSurviveFailure ==
    \A p \in Procs :
        (pc[p] = "responded" /\ FailedStep(p) \in {"pdf", "customer", "admin"})
        => /\ loc[p].techSupport = "none"
           /\ audit[p] = <<>>
           /\ "customer" \in AttemptedSteps(p)
           /\ loc[p].config.admin => "admin" \in AttemptedSteps(p)

\* C13: whenever fulfillment of an order fails, an audit record is written and
\* a notification is eventually sent to the tech support address.
C13_FailureEventuallyEscalated ==
    \A p \in Procs :
        (FailedStep(p) # "none")
        ~> (/\ audit[p] # <<>>
            /\ \E i \in 1..Len(mail[p]) : mail[p][i].to = "tech")

\* C14: every response of the route, whatever its status, carries the rate
\* limit headers computed from the admission result of the request.
C14_EveryResponseHasRateLimitHeaders ==
    \A p \in Procs :
        resp[p].status # 0 =>
            /\ resp[p].headers.present
            /\ resp[p].headers = getRateLimitHeaders(loc[p].rateLimitResult, maxRequests)

\* C15: a request denied by the throttle is answered 429 with a retry hint of
\* ceil(resetIn / 1000) seconds, resetIn being the time left in the window of
\* its key, and goes no further: no validation, no catalog fetch, no order
\* number, nothing logged, persisted or sent.
C15_DeniedRequestStopsAt429 ==
    \A p \in Procs :
        /\ resp[p].status = 429 => ~loc[p].rateLimitResult.allowed
        /\ (loc[p].rateLimitResult.current > 0 /\ ~loc[p].rateLimitResult.allowed) =>
              LET resetIn == windowMs - (now - rateLimitStore[req[p].key].firstRequestTime)
                  seconds == IF resetIn % 1000 = 0 THEN resetIn \div 1000
                             ELSE resetIn \div 1000 + 1
              IN  /\ pc[p] = "responded"
                  /\ resp[p].status = 429
                  /\ ~resp[p].success
                  /\ loc[p].rateLimitResult.resetIn = resetIn
                  /\ resp[p].retryAfter = seconds
                  /\ resp[p].retryAfterHeader = seconds
                  /\ resp[p].details = <<>>
                  /\ loc[p].items = <<>>
                  /\ loc[p].fetched = <<FALSE, FALSE, FALSE>>
                  /\ loc[p].source = "none"
                  /\ loc[p].orderNumber = NoOrderNumber
                  /\ loc[p].steps = <<>>
                  /\ audit[p] = <<>>
                  /\ mail[p] = <<>>
                  /\ \A i \in 1..Len(seqSheet.rows) : seqSheet.rows[i].by # p
                  /\ \A i \in 1..Len(orderSheet.rows) : orderSheet.rows[i].by # p

\* A correct order from a client that had used up its window half a second
\* before: denied, to retry in 60 seconds.
C15_Witness ==
    \E p \in Procs :
        /\ resp[p].status = 429
        /\ req[p].body.items = <<FullTee>>
        /\ loc[p].rateLimitResult.resetIn = windowMs - 500
        /\ resp[p].retryAfter = 60

\* The JSON body of a response.
ResponseBody(r) ==
    [success |-> r.success, orderNumber |-> r.orderNumber, error |-> r.error,
     details |-> r.details, retryAfter |-> r.retryAfter]

\* A request was rejected by price verification.
PriceRejected(p) ==
    /\ resp[p].status # 0
    /\ \E i \in 1..Len(audit[p]) : audit[p][i].step = "Price Verification"

\* C16: two equal submissions that are both rejected by price verification,
\* whatever catalogs they were verified against and whatever discrepancies
\* were found, get the same status and the same body: a generic message
\* without the discrepancies.
C16_RejectionHidesDiscrepancies ==
    \A p \in Procs, q \in Procs :
        (PriceRejected(p) /\ PriceRejected(q) /\ req[p].body = req[q].body)
        => /\ resp[p].status = 400
           /\ resp[p].status = resp[q].status
           /\ ResponseBody(resp[p]) = ResponseBody(resp[q])
           /\ resp[p].details = <<>>
           /\ resp[p].error = "Price verification failed"

\* Two equal submissions rejected for different discrepancies: one verified
\* against the whole catalog, one against a catalog whose products were not fetched.
C16_Witness ==
    /\ PriceRejected("r1") /\ PriceRejected("r2")
    /\ req["r1"].body = req["r2"].body
    /\ loc["r1"].fetched = <<TRUE, TRUE, TRUE>>
    /\ loc["r2"].fetched = <<FALSE, TRUE, TRUE>>
    /\ audit["r1"][1].detail # audit["r2"][1].detail

\* C17: for every sequence the allocator returns, from the ledger or from the
\* fallback, the order number is CVL-ENV-STORE-date-SEQUENCE with a SEQUENCE
\* of exactly six decimal digits, and getShortOrderNumber returns SEQUENCE.
C17_SequenceHasSixDigits ==
    \A p \in Procs :
        pc[p] = "numbered" =>
            LET fullOrderNumber == OrderNumberOf(p)
            IN  /\ fullOrderNumber.prefix = "CVL"
                /\ fullOrderNumber.env = env[p]
                /\ Len(fullOrderNumber.sequence) = PadWidth
                /\ \A i \in 1..Len(fullOrderNumber.sequence) :
                      fullOrderNumber.sequence[i] \in 0..9
                /\ getShortOrderNumber(fullOrderNumber) = fullOrderNumber.sequence

\* C18: in the route the submitted itemPrice is compared with the catalog base
\* price plus the catalog upcharge of the submitted size: a validated
\* submission verified against the whole catalog is accepted exactly when
\* verifyPrices, given the products with their size tables, finds no
\* discrepancy, so correct prices with a non-zero upcharge pass and a
\* sizeUpcharge or itemPrice off by more than 0.01 is rejected.
C18_UpchargeVerifiedAgainstCatalog ==
    \A p \in Procs :
        (/\ pc[p] = "responded"
         /\ loc[p].items # <<>>
         /\ loc[p].fetched = <<TRUE, TRUE, TRUE>>)
        => (resp[p].status = 200
              <=> verifyPrices(loc[p].items, catalog.products, catalog.designOptions,
                               catalog.customizationOptions).valid)

\* The option numbers of a list of submitted options that the catalog list lacks.
UnknownNumbers(submitted, options) ==
    {submitted[i].optionNumber : i \in 1..Len(submitted)}
        \ {options[n].number : n \in 1..Len(options)}

\* C19: an item with a design or customization option whose number is not in
\* the catalog always makes verifyPrices return valid = false with a discrepancy.
C19_UnknownOptionFlagged ==
    pvResult.done =>
        \A i \in 1..Len(pvItems) :
            (\/ UnknownNumbers(pvItems[i].designOptions, catalog.designOptions) # {}
             \/ UnknownNumbers(pvItems[i].customizationOptions,
                               catalog.customizationOptions) # {})
            => /\ ~pvResult.valid
               /\ pvResult.discrepancies # <<>>

\* C20: a denied checkRateLimit call leaves the window start of its key
\* unchanged and increments the count, and a call for a key whose count has
\* reached the limit is denied as long as the window has not elapsed, however
\* many denied calls came before it.
C20_DenialKeepsWindow ==
    /\ (lastCall.made /\ ~lastCall.result.allowed) =>
          /\ lastCall.before.present
          /\ rateLimitStore[lastCall.key] =
                 [present |-> TRUE, count |-> lastCall.before.count + 1,
                  firstRequestTime |-> lastCall.before.firstRequestTime]
          /\ lastCall.result.current = lastCall.before.count + 1
    /\ (/\ lastCall.made
        /\ lastCall.before.present
        /\ lastCall.before.count >= maxRequests
        /\ lastCall.t - lastCall.before.firstRequestTime < windowMs)
       => ~lastCall.result.allowed

\* A call denied after an earlier denied call of the same window, later in the window.
C20_Witness ==
    /\ lastCall.made
    /\ ~lastCall.result.allowed
    /\ lastCall.before.count > maxRequests
    /\ lastCall.t > lastCall.before.firstRequestTime
    /\ Len(rlWindow[lastCall.key]) >= maxRequests + 2

\* The row of the OrderSequence sheet that holds the append of a caller, 0 when none does.
RowOf(p) ==
    LET mine == {i \in 1..Len(seqSheet.rows) : seqSheet.rows[i].by = p}
    IN  IF mine = {} THEN 0
        ELSE HeaderRows + seqSheet.prior + (CHOOSE i \in mine : TRUE)

\* C21: when the append of a caller was answered with its row r, the sequence
\* returned is r - 1, whether the update of column C of row r succeeds or
\* fails: a failed update neither fails the allocation nor switches it to the
\* timestamp sequence.
C21_FailedUpdateKeepsSequence ==
    \A p \in Procs :
        (pc[p] = "numbered" /\ loc[p].rowNumber # 0) =>
            /\ loc[p].rowNumber = RowOf(p)
            /\ loc[p].sequence = RowOf(p) - 1
            /\ loc[p].source = "ledger"
            /\ loc[p].failedAt = "none"
            /\ loc[p].recorded =>
                  seqSheet.rows[RowOf(p) - HeaderRows - seqSheet.prior].sequence
                      = loc[p].sequence

\* A caller numbered from row 10 whose update of column C failed, after time
\* had passed since the start.
C21_Witness ==
    \E p \in Procs :
        /\ pc[p] = "numbered"
        /\ loc[p].rowNumber = HeaderRows + PriorRows + 1
        /\ ~loc[p].recorded
        /\ seqSheet.rows[1].pending
        /\ now > 0

\* The steps of fulfillment in the order they are specified to run.
FulfillmentOrder == <<"sheets", "pdf", "archive", "customer", "admin">>

StepRank(step) == CHOOSE i \in 1..Len(FulfillmentOrder) : FulfillmentOrder[i] = step

\* C22: the steps of an order run one at a time in the order ledger write,
\* document generation, archival upload, customer notification, admin
\* notification: the steps attempted so far are in that order, and customer
\* notification starts only after the archival upload has finished, failed or
\* been skipped.
C22_FixedStepOrder ==
    \A p \in Procs :
        /\ \A i, j \in 1..Len(loc[p].steps) :
              i < j => StepRank(loc[p].steps[i].step) < StepRank(loc[p].steps[j].step)
        /\ pc[p] \in {"customer", "admin"} => "archive" \in AttemptedSteps(p)

\* The rows of the Orders sheet appended for a request.
RowsBy(p) == {i \in 1..Len(orderSheet.rows) : orderSheet.rows[i].by = p}

RECURSIVE SumQuantities(_)
SumQuantities(items) ==
    IF items = <<>> THEN 0 ELSE Head(items).quantity + SumQuantities(Tail(items))

\* C23: submitOrder appends one row per unit of quantity, all in one append:
\* the rows of an order are as many as the sum of the quantities of its items,
\* they are adjacent in the sheet, each has quantity 1 and carries the order
\* number, the environment, the store, the order total and the placeholder of
\* the invoice filename, and the sheet has its header row before any row is
\* appended.  The rows exist exactly when the ledger step has finished.
C23_OneRowPerUnit ==
    \A p \in Procs :
        /\ RowsBy(p) # {} <=> [step |-> "sheets", ok |-> TRUE] \in
                                  {loc[p].steps[i] : i \in 1..Len(loc[p].steps)}
        /\ RowsBy(p) # {} =>
              /\ Cardinality(RowsBy(p)) = SumQuantities(loc[p].items)
              /\ \A i, j \in RowsBy(p) : \A k \in i..j : k \in RowsBy(p)
              /\ \A i \in RowsBy(p) :
                    /\ orderSheet.rows[i].quantity = 1
                    /\ orderSheet.rows[i].orderNumber = loc[p].orderNumber
                    /\ orderSheet.rows[i].environment = env[p]
                    /\ orderSheet.rows[i].store = "PHENOMS"
                    /\ orderSheet.rows[i].orderTotal = loc[p].serverCalculatedTotal
                    /\ orderSheet.rows[i].invoiceFilename = "Pending..."
              /\ orderSheet.header

\* Two concurrent orders of a tee of quantity 2 and a tee of quantity 1, three
\* rows each, on a sheet that started without its header row.
C23_Witness ==
    /\ Len(orderSheet.rows) = 6
    /\ \A p \in Procs :
          /\ Len(loc[p].items) = 2
          /\ Cardinality(RowsBy(p)) = 3
    /\ orderSheet.header

\* Every step of a request except the two ledger appends.
AnsweredStep(p) ==
    \/ GenStart(p)
    \/ GetClient(p)
    \/ HeaderCheck(p)
    \/ AddSheet(p)
    \/ WriteHeader(p)
    \/ UpdateRow(p)
    \/ Receive(p)
    \/ Parse(p)
    \/ FetchVerify(p)
    \/ ConfigFetch(p)
    \/ SheetCheck(p)
    \/ SheetHeader(p)
    \/ GeneratePdf(p)
    \/ CustomerEmail(p)
    \/ AdminEmail(p)
    \/ TechSupportEmail(p)

\* The runtime takes every step it can take, while the spreadsheet service may
\* leave values.append unanswered: neither await has a timeout, so nothing in
\* the program makes an unanswered append end.
SpecSlowAppend == Spec /\ WF_vars(\E p \in Procs : AnsweredStep(p))

\* C24: a ledger append that is not answered does not block the request: a
\* request waiting for the append of numbering or for the append of the
\* ledger write is eventually answered.
C24_SlowAppendDoesNotBlock ==
    \A p \in Procs :
        (pc[p] \in {"append", "sheetAppend"}) ~> (resp[p].status # 0)

\* Time passes whether or not a request arrives; the arrival of requests is
\* up to the clients.  Once the clock has reached MaxTime without a call the
\* store can change no more: only checkRateLimit touches it.
SpecRateLive == SpecRate /\ WF_vars(Tick)

\* C25: the sweep depends on elapsed time only: an entry whose window has
\* expired is eventually removed from the store, even when no further
\* request arrives.
C25_ExpiredEntryEventuallySwept ==
    \A k \in Keys :
        (rateLimitStore[k].present /\ EntryExpired(now, rateLimitStore[k], windowMs))
            ~> ~rateLimitStore[k].present

\* C26: outside LOCAL no two calls of generateOrderNumber return the same full
\* order number, whichever of them took the ledger sequence and whichever the
\* timestamp sequence.
C26_OrderNumbersAreUnique ==
    \A p, q \in Procs :
        (/\ p # q
         /\ pc[p] = "numbered" /\ pc[q] = "numbered"
         /\ env[p] # "LOCAL" /\ env[q] # "LOCAL")
            => OrderNumberOf(p) # OrderNumberOf(q)

\* C27: a caller that found the OrderSequence sheet missing and met no failure
\* of the spreadsheet service returns the sequence of the row of its own
\* append, never the timestamp sequence, and two such callers return distinct
\* sequences, however their header checks, sheet creations, header writes and
\* appends interleave.
C27_MissingSheetRaceKeepsLedger ==
    \A p \in Procs :
        (/\ pc[p] = "numbered"
         /\ env[p] # "LOCAL"
         /\ loc[p].headerAnswer = "missing"
         /\ loc[p].failedAt \notin {"client", "header", "append"})
            => /\ loc[p].source = "ledger"
               /\ loc[p].sequence = RowOf(p) - 1
               /\ \A q \in Procs \ {p} :
                     (pc[q] = "numbered" /\ loc[q].source = "ledger")
                         => loc[q].sequence # loc[p].sequence

\* The calls logOrderError(orderNumber, 'Order Processing', ...) of a request
\* that carry its order number.
LoggedFailures(p) ==
    {i \in 1..Len(audit[p]) :
        /\ audit[p][i].step = "Order Processing"
        /\ audit[p][i].orderNumber = loc[p].orderNumber}

\* C28: a request answered 200 with success: true has, before the response,
\* either its rows in the Orders sheet under its order number or a call of
\* logOrderError with that order number and the failed step.
C28_SuccessIsLedgeredOrLogged ==
    \A p \in Procs :
        resp[p].success =>
            \/ /\ RowsBy(p) # {}
               /\ \A i \in RowsBy(p) : orderSheet.rows[i].orderNumber = loc[p].orderNumber
            \/ /\ LoggedFailures(p) # {}
               /\ \A i \in LoggedFailures(p) : audit[p][i].detail = FailedStep(p)

\* A request answered with success whose ledger write failed: no row of it in
\* the Orders sheet, the failure in the error log.
C28_Witness ==
    \E p \in Procs :
        /\ resp[p].status = 200
        /\ resp[p].success
        /\ RowsBy(p) = {}
        /\ FailedStep(p) = "sheets"
        /\ LoggedFailures(p) # {}

C30_CatalogOutageRejectsOrder ==
    \A p \in Procs :
        (/\ pc[p] \notin {"off", "idle", "parse", "fetch"}
         /\ loc[p].items # <<>>
         /\ ~loc[p].fetched[1])
            => /\ pc[p] = "responded"
               /\ resp[p].status = 400
               /\ ResponseBody(resp[p]) =
                      ResponseBody(Response(400, "Price verification failed", NoHeaders))
               /\ resp[p].headers = getRateLimitHeaders(loc[p].rateLimitResult, maxRequests)
               /\ audit[p] =
                      <<AuditRecord("PRICE_TAMPERING", "Price Verification",
                                    [i \in 1..Len(loc[p].items) |->
                                        Discrepancy("Product not found",
                                                    loc[p].items[i].productId)])>>
               /\ loc[p].source = "none"
               /\ loc[p].orderNumber = NoOrderNumber
               /\ RowsBy(p) = {}
               /\ RowOf(p) = 0
               /\ mail[p] = <<>>

\* The submission of a tee at its catalog prices, rejected because the
\* products fetch failed while both option fetches succeeded.
C30_Witness ==
    \E p \in Procs :
        /\ loc[p].items = <<FullTee>>
        /\ loc[p].fetched = <<FALSE, TRUE, TRUE>>
        /\ verifyPrices(<<FullTee>>, VerifierProducts(fetchProducts(catalog)),
                        catalog.designOptions, catalog.customizationOptions).valid
        /\ resp[p].status = 400
        /\ pc[p] = "responded"

====
